---- MODULE Spec2Model ----
(***************************************************************************)
(* CodeBuilder (aiida/control/code.py): a build specification, a mapping   *)
(* from parameter name to value, that is validated on every attribute      *)
(* assignment and turned into a Code object by new().                      *)
(***************************************************************************)
EXTENDS Integers, Sequences, FiniteSets, TLC

\* ------------------------------------------------------------------ bounds
\* Number of calls made on a builder that was constructed with keyword
\* arguments, and on a builder constructed without any.
MaxOps == 2
MaxFreshOps == 3
\* Number of stored nodes, length of a list of nodes passed in one call, and
\* number of add_nodes and remove_nodes calls made on a group.
NumNodes == 2
MaxListLen == 2
MaxGroupOps == 3
\* Number of arguments on the command line of the group command.
MaxArgs == 3

\* ------------------------------------------------------------------ values
\* The members of CodeBuilder.CodeType.
STORE_AND_UPLOAD == "CodeType.STORE_AND_UPLOAD"
ON_COMPUTER == "CodeType.ON_COMPUTER"
CodeType == {STORE_AND_UPLOAD, ON_COMPUTER}

\* What dict.get returns for a key that is not in the dict.
None == "None"

\* Python truth value of a parameter value.
Truthy(v) == v # None /\ v # ""

VariantKeys == {"computer", "remote_abs_path", "code_folder", "code_rel_path"}
CommonKeys == {"label", "description", "input_plugin", "prepend_text", "append_text"}
\* A parameter name that no part of new() reads.
ExtraKey == "typo"
Keys == {"code_type"} \cup VariantKeys \cup CommonKeys \cup {ExtraKey}

\* The values a caller passes for each key. "upload" stands for any non-empty
\* value that is not a member of CodeType; the test "value not in CodeType" is
\* the one of the enum34 package: true of every value that is not a member.
ValuesOf(k) ==
    CASE k = "code_type" -> {"", STORE_AND_UPLOAD, ON_COMPUTER, "upload"}
      [] k = "computer" -> {"", "localhost"}
      [] k = "remote_abs_path" -> {"/bin/true"}
      [] k = "code_folder" -> {"", "dir"}
      [] k = "code_rel_path" -> {"run.sh"}
      [] OTHER -> {k}

\* os.listdir: the directory "dir" exists and holds one file; any other
\* path does not exist.
IsDir(path) == path = "dir"
listdir(path) == {"run.sh"}

\* The keyword arguments a builder is constructed with.
CommonChoices == {{}, CommonKeys, {"label", "description", "input_plugin"}}
KwargsKeySets ==
    {V \cup C : V \in SUBSET ({"code_type"} \cup VariantKeys), C \in CommonChoices}
\* dict(): the specification with no key.
EmptySpec == [k \in {} |-> None]

\* self._code_spec[key] = value
Assign(spec, key, value) ==
    [k \in DOMAIN spec \cup {key} |-> IF k = key THEN value ELSE spec[k]]

\* Every specification with exactly the keys K.
RECURSIVE SpecsOver(_)
SpecsOver(K) ==
    IF K = {} THEN {EmptySpec}
    ELSE LET k == CHOOSE x \in K : TRUE
         IN {Assign(f, k, v) : f \in SpecsOver(K \ {k}), v \in ValuesOf(k)}

Kwargs == UNION {SpecsOver(K) : K \in KwargsKeySets}

\* ------------------------------------------------------------------- state
VARIABLES
    code_spec,  \* self._code_spec: the build specification
    attrs,      \* the public instance attributes stored by object.__setattr__
    errors,     \* self._err_acc.errors[CodeValidationError]
    last,       \* the last call made on the builder and how it ended
    nops,       \* number of calls made so far
    kwargs,     \* the keyword arguments of the constructor
    group,      \* an orm Group: its row, its link table and the last call on it
    cmd         \* one invocation of the `group` command line command

vars == <<code_spec, attrs, errors, last, nops, kwargs, group, cmd>>

\* The builder object as a value.
Builder(s, a, e) == [spec |-> s, attrs |-> a, errors |-> e]
self == Builder(code_spec, attrs, errors)

NoCode == [variant |-> "none"]
NoCall == [op |-> "init", key |-> None, value |-> None, raise_error |-> FALSE,
           raised |-> "none", msg |-> "", success |-> TRUE, unknown |-> {},
           code |-> NoCode]

\* ----------------------------------------------------------- the accumulator
\* ErrorAccumulator.run: call a rule and keep the error it raises. A rule is
\* given by the sequence of errors it raises: empty, or one error.
run(errs, raised) == errs \o raised

\* ErrorAccumulator.success
success(errs) == errs = <<>>

\* ErrorAccumulator.result: raise when asked to and there are errors,
\* otherwise return the success flag and the errors.
result(errs, raise_error) ==
    [raised |-> IF raise_error /\ ~success(errs) THEN "CodeValidationError" ELSE "none",
     success |-> success(errs),
     errors |-> errs]

\* --------------------------------------------------------------- the builder
\* CodeBuilder._get
_get(b, key) == IF key \in DOMAIN b.spec THEN b.spec[key] ELSE None

\* Attribute lookup on the builder: an instance attribute wins, __getattr__
\* is only called when there is none.
IsSet(b, key) == key \in DOMAIN b.attrs \/ key \in DOMAIN b.spec
__getattr__(b, key) ==
    IF key \in DOMAIN b.attrs THEN b.attrs[key]
    ELSE IF key \in DOMAIN b.spec THEN b.spec[key]
    ELSE None

\* CodeBuilder.validate_code_type
validate_code_type(b) ==
    IF Truthy(_get(b, "code_type")) /\ __getattr__(b, "code_type") \notin CodeType
    THEN << <<"invalid code type">> >>
    ELSE <<>>

\* validate_upload that reports only the first forbidden attribute.
validate_upload_first_only(b) ==
    LET tagged == _get(b, "code_type") = STORE_AND_UPLOAD
        m1 == IF tagged /\ Truthy(_get(b, "computer"))
              THEN <<"invalid option for store-and-upload code: computer">> ELSE <<>>
        m2 == IF tagged /\ Truthy(_get(b, "remote_abs_path"))
              THEN <<"invalid option for store-and-upload code: remote_abs_path">> ELSE <<>>
        messages == IF m1 # <<>> THEN m1 ELSE m2
    IN IF messages # <<>> THEN <<messages>> ELSE <<>>

\* CodeBuilder.validate_upload
validate_upload(b) ==
    LET tagged == _get(b, "code_type") = STORE_AND_UPLOAD
        m1 == IF tagged /\ Truthy(_get(b, "computer"))
              THEN <<"invalid option for store-and-upload code: computer">> ELSE <<>>
        m2 == IF tagged /\ Truthy(_get(b, "remote_abs_path"))
              THEN <<"invalid option for store-and-upload code: remote_abs_path">> ELSE <<>>
        messages == m1 \o m2
    IN IF messages # <<>> THEN <<messages>> ELSE <<>>

\* validate_installed that forgets to look at code_rel_path.
validate_installed_folder_only(b) ==
    LET tagged == _get(b, "code_type") = ON_COMPUTER
        messages == IF tagged /\ Truthy(_get(b, "code_folder"))
                    THEN <<"invalid options for on-computer code: code_folder">> ELSE <<>>
    IN IF messages # <<>> THEN <<messages>> ELSE <<>>

\* validate_installed that tests for the store-and-upload tag.
validate_installed_wrong_tag(b) ==
    LET tagged == _get(b, "code_type") = STORE_AND_UPLOAD
        m1 == IF tagged /\ Truthy(_get(b, "code_folder"))
              THEN <<"invalid options for on-computer code: code_folder">> ELSE <<>>
        m2 == IF tagged /\ Truthy(_get(b, "code_rel_path"))
              THEN <<"invalid options for on-computer code: code_rel_path">> ELSE <<>>
        messages == m1 \o m2
    IN IF messages # <<>> THEN <<messages>> ELSE <<>>

\* CodeBuilder.validate_installed
validate_installed(b) ==
    LET tagged == _get(b, "code_type") = ON_COMPUTER
        m1 == IF tagged /\ Truthy(_get(b, "code_folder"))
              THEN <<"invalid options for on-computer code: code_folder">> ELSE <<>>
        m2 == IF tagged /\ Truthy(_get(b, "code_rel_path"))
              THEN <<"invalid options for on-computer code: code_rel_path">> ELSE <<>>
        messages == m1 \o m2
    IN IF messages # <<>> THEN <<messages>> ELSE <<>>

\* CodeBuilder.validate
validate(b, raise_error) ==
    LET e1 == run(b.errors, validate_code_type(b))
        e2 == run(e1, validate_upload(b))
        e3 == run(e2, validate_installed(b))
    IN result(e3, raise_error)

\* CodeBuilder._set_code_attr
_set_code_attr(b, key, value) ==
    LET backup == b.spec
        assigned == Assign(b.spec, key, value)
        first == validate(Builder(assigned, b.attrs, b.errors), FALSE)
        again == validate(Builder(backup, b.attrs, first.errors), TRUE)
    IN IF first.success
       THEN [spec |-> assigned, errors |-> first.errors, raised |-> "none"]
       ELSE [spec |-> backup, errors |-> again.errors, raised |-> again.raised]

\* CodeBuilder.__setattr__ for a key that does not start with an underscore
__setattr__(b, key, value) ==
    LET r == _set_code_attr(b, key, value)
    IN [spec |-> r.spec, errors |-> r.errors, raised |-> r.raised,
        attrs |-> IF r.raised = "none"
                  THEN Assign(b.attrs, key, value)
                  ELSE b.attrs]

\* The keys new() reads with _get_and_count, in the order it reads them.
CommonSeq == <<"label", "description", "input_plugin", "prepend_text", "append_text">>
ReadSeq(code_type) ==
    (IF code_type = STORE_AND_UPLOAD
     THEN <<"code_folder", "code_rel_path">>
     ELSE <<"computer", "remote_abs_path">>) \o CommonSeq

\* CodeBuilder._get_and_count over a sequence of keys: the keys are added to
\* used one by one, up to the first key that is not set.
Missing(b, keys) == {i \in 1..Len(keys) : ~IsSet(b, keys[i])}
FirstMissing(b, keys) == CHOOSE i \in Missing(b, keys) : \A j \in Missing(b, keys) : i <= j
_get_and_count(b, keys) ==
    IF Missing(b, keys) = {}
    THEN [raised |-> "none", msg |-> "", used |-> {keys[i] : i \in 1..Len(keys)}]
    ELSE [raised |-> "CodeValidationError",
          msg |-> keys[FirstMissing(b, keys)] \o " not set",
          used |-> {keys[i] : i \in 1..(FirstMissing(b, keys) - 1)}]

\* The Code object new() constructs from the specification.
Code(b, code_type) ==
    IF code_type = STORE_AND_UPLOAD
    THEN [variant |-> "store-and-upload",
          local_executable |-> __getattr__(b, "code_rel_path"),
          files |-> listdir(__getattr__(b, "code_folder")),
          label |-> __getattr__(b, "label"),
          description |-> __getattr__(b, "description"),
          input_plugin |-> __getattr__(b, "input_plugin"),
          prepend_text |-> __getattr__(b, "prepend_text"),
          append_text |-> __getattr__(b, "append_text")]
    ELSE [variant |-> "on-computer",
          remote_computer_exec |-> <<__getattr__(b, "computer"),
                                     __getattr__(b, "remote_abs_path")>>,
          label |-> __getattr__(b, "label"),
          description |-> __getattr__(b, "description"),
          input_plugin |-> __getattr__(b, "input_plugin"),
          prepend_text |-> __getattr__(b, "prepend_text"),
          append_text |-> __getattr__(b, "append_text")]

\* new() without the final check for keys that were passed but not used.
new_unchecked(b) ==
    LET v == validate(b, TRUE)
        failed(raised, msg) ==
            [errors |-> v.errors, raised |-> raised, msg |-> msg,
             unknown |-> {}, code |-> NoCode]
        code_type == __getattr__(b, "code_type")
        read == _get_and_count(b, ReadSeq(code_type))
    IN IF v.raised # "none"
           THEN failed(v.raised, "The following errors were encountered")
       ELSE IF ~IsSet(b, "code_type")
           THEN failed("CodeValidationError", "code_type not set")
       ELSE IF code_type = STORE_AND_UPLOAD /\ IsSet(b, "code_folder")
               /\ ~IsDir(__getattr__(b, "code_folder"))
           THEN failed("OSError", "No such file or directory")
       ELSE IF read.raised # "none"
           THEN failed(read.raised, read.msg)
       ELSE [errors |-> v.errors, raised |-> "none", msg |-> "", unknown |-> {},
             code |-> Code(b, code_type)]

\* CodeBuilder.new
new(b) ==
    LET v == validate(b, TRUE)
        failed(raised, msg, unknown) ==
            [errors |-> v.errors, raised |-> raised, msg |-> msg,
             unknown |-> unknown, code |-> NoCode]
        passed_keys == DOMAIN b.spec
        code_type == __getattr__(b, "code_type")
        read == _get_and_count(b, ReadSeq(code_type))
    IN IF v.raised # "none"
           THEN failed(v.raised, "The following errors were encountered", {})
       ELSE IF ~IsSet(b, "code_type")
           THEN failed("CodeValidationError", "code_type not set", {})
       ELSE IF code_type = STORE_AND_UPLOAD /\ IsSet(b, "code_folder")
               /\ ~IsDir(__getattr__(b, "code_folder"))
           THEN failed("OSError", "No such file or directory", {})
       ELSE IF read.raised # "none"
           THEN failed(read.raised, read.msg, {})
       ELSE IF passed_keys \ read.used # {}
           THEN failed("CodeValidationError", "Unknown parameters passed to the CodeBuilder",
                       passed_keys \ read.used)
       ELSE [errors |-> v.errors, raised |-> "none", msg |-> "", unknown |-> {},
             code |-> Code(b, code_type)]

\* ------------------------------------------------------------- orm groups
\* A Group that was constructed with a name and not stored yet.
\* A call is recorded by its method, the shape of its argument, the kinds
\* and the pks of the nodes passed, and the error it raised.
GroupCall(op, nodes, raised) ==
    [op |-> op, shape |-> nodes.shape,
     kinds |-> {nodes.items[i].kind : i \in 1..Len(nodes.items)},
     pks |-> {nodes.items[i].pk : i \in 1..Len(nodes.items)},
     raised |-> raised]
NoGroupCall == GroupCall("init", [shape |-> "list", items |-> <<>>], "none")
NewGroup == [stored |-> FALSE, dbnodes |-> <<>>, call |-> NoGroupCall, ncalls |-> 0]

\* The nodes a caller can pass: an orm Node or its DbNode, for each stored
\* node, and an orm Node that was never stored (it has no pk, written 0).
Unstored == 0
NodeObjects ==
    {[kind |-> k, pk |-> n] : k \in {"Node", "DbNode"}, n \in 1..NumNodes}
        \cup {[kind |-> "Node", pk |-> Unstored]}

\* The argument of add_nodes and remove_nodes: one node, or a list of nodes.
NodeLists == UNION {[1..n -> NodeObjects] : n \in 0..MaxListLen}
NodeArgs == {[shape |-> "node", items |-> <<x>>] : x \in NodeObjects}
                \cup {[shape |-> "list", items |-> l] : l \in NodeLists}

Range(seq) == {seq[i] : i \in 1..Len(seq)}

\* The pks of the nodes of an argument, a single node taken as a list of one.
list_pk(nodes) == [i \in 1..Len(nodes.items) |-> nodes.items[i].pk]

\* dbnodes.add(*pks): a row is inserted for every pk that has none yet.
RECURSIVE AddRows(_, _)
AddRows(rows, pks) ==
    IF pks = <<>> THEN rows
    ELSE IF Head(pks) \in Range(rows) THEN AddRows(rows, Tail(pks))
    ELSE AddRows(Append(rows, Head(pks)), Tail(pks))

\* dbnodes.remove(*pks): the rows of these pks are deleted.
RemoveRows(rows, pks) == SelectSeq(rows, LAMBDA r : r \notin Range(pks))

\* The checks add_nodes and remove_nodes make before they touch the table.
Refusal(g, nodes) ==
    IF ~g.stored THEN "ModificationNotAllowed"
    ELSE IF Unstored \in Range(list_pk(nodes)) THEN "ValueError"
    ELSE "none"

\* Group.add_nodes
add_nodes(g, nodes) ==
    [g EXCEPT !.dbnodes = IF Refusal(g, nodes) = "none"
                          THEN AddRows(@, list_pk(nodes)) ELSE @,
              !.call = GroupCall("add_nodes", nodes, Refusal(g, nodes)),
              !.ncalls = @ + 1]

\* remove_nodes that removes only the first node of a list.
remove_nodes_first_only(g, nodes) ==
    [g EXCEPT !.dbnodes = IF Refusal(g, nodes) = "none"
                          THEN RemoveRows(@, IF list_pk(nodes) = <<>> THEN <<>>
                                                ELSE <<Head(list_pk(nodes))>>)
                          ELSE @,
              !.call = GroupCall("remove_nodes", nodes, Refusal(g, nodes)),
              !.ncalls = @ + 1]

\* Group.remove_nodes
remove_nodes(g, nodes) ==
    [g EXCEPT !.dbnodes = IF Refusal(g, nodes) = "none"
                          THEN RemoveRows(@, list_pk(nodes)) ELSE @,
              !.call = GroupCall("remove_nodes", nodes, Refusal(g, nodes)),
              !.ncalls = @ + 1]

\* -------------------------------------------------- the group command line
\* The command before it is run.
NoRun == [ran |-> FALSE, args |-> <<>>, called |-> <<>>, passed |-> <<>>,
          stderr |-> <<>>, stdout |-> <<>>, exit |-> "none", db |-> FALSE]

\* self.valid_subcommands: the handler of each subcommand.
valid_subcommands == [sc \in {"list"} |-> "group_list"]

\* The words a command line is made of.
Words == {"list", "show", "-A", "-d", "-u"}
ArgLists == UNION {[1..n -> Words] : n \in 0..MaxArgs}

\* The lines both error handlers print after their first line.
SubcommandLines == {"  " \o sc : sc \in DOMAIN valid_subcommands}

\* Group.no_subcommand
no_subcommand(c, args) ==
    [c EXCEPT !.called = Append(@, "no_subcommand"), !.passed = args,
              !.stderr = <<"You have to pass a valid subcommand to 'group'. Valid subcommands are:",
                           SubcommandLines>>,
              !.exit = "1"]

\* Group.invalid_subcommand
invalid_subcommand(c, args) ==
    [c EXCEPT !.called = Append(@, "invalid_subcommand"), !.passed = args,
              !.stderr = <<"You passed an invalid subcommand to 'group'. Valid subcommands are:",
                           SubcommandLines>>,
              !.exit = "1"]

\* The argument parser of group_list: -A and -d are flags, -u takes one
\* value, -A and -u exclude each other, and nothing else is accepted.
IsOption(w) == w \in {"-A", "-d", "-u"}
RECURSIVE parse_args(_, _)
parse_args(args, parsed) ==
    IF args = <<>> THEN parsed
    ELSE IF Head(args) = "-A"
        THEN IF parsed.user # None THEN [parsed EXCEPT !.error = TRUE]
             ELSE parse_args(Tail(args), [parsed EXCEPT !.all_users = TRUE])
    ELSE IF Head(args) = "-d"
        THEN parse_args(Tail(args), [parsed EXCEPT !.with_description = TRUE])
    ELSE IF Head(args) = "-u"
        THEN IF Len(args) < 2 \/ IsOption(args[2]) \/ parsed.all_users
             THEN [parsed EXCEPT !.error = TRUE]
             ELSE parse_args(Tail(Tail(args)), [parsed EXCEPT !.user = args[2]])
    ELSE [parsed EXCEPT !.error = TRUE]
Defaults == [all_users |-> FALSE, with_description |-> FALSE, user |-> None, error |-> FALSE]

\* The groups in the database and the user get_automatic_user returns.
AutomaticUser == "me"
DbGroups == <<[name |-> "g1", user |-> "me", nodes |-> 2, description |-> "first"],
              [name |-> "g2", user |-> "list", nodes |-> 0, description |-> "second"]>>

\* G.query(user=user)
query(user) == SelectSeq(DbGroups, LAMBDA g : user = None \/ g.user = user)

\* The line group_list prints for a group.
GroupLine(g, with_description) ==
    IF with_description
    THEN <<"*", g.name, g.nodes, g.user, g.description>>
    ELSE <<"*", g.name, g.nodes, g.user>>

\* Group.group_list
group_list(c, args) ==
    LET parsed == parse_args(args, Defaults)
        user == IF parsed.all_users THEN None
                ELSE IF Truthy(parsed.user) THEN parsed.user
                ELSE AutomaticUser
        groups == query(user)
        header == IF parsed.with_description
                  THEN <<"#", "GroupName", "NumNodes", "User", "Description">>
                  ELSE <<"#", "GroupName", "NumNodes", "User">>
        loaded == [c EXCEPT !.called = Append(@, "group_list"), !.passed = args, !.db = TRUE]
    IN IF parsed.error
       THEN [loaded EXCEPT !.stderr = <<"usage">>, !.exit = "2"]
       ELSE [loaded EXCEPT !.stdout =
                <<header>> \o [i \in 1..Len(groups) |->
                                  GroupLine(groups[i], parsed.with_description)]]

\* The handler of a function name.
Call(function_to_call, c, args) ==
    CASE function_to_call = "group_list" -> group_list(c, args)
      [] function_to_call = "no_subcommand" -> no_subcommand(c, args)
      [] OTHER -> invalid_subcommand(c, args)

\* Group.run that hands all its arguments to the handler.
Group_run_all_args(c, args) ==
    LET function_to_call ==
            IF Len(args) = 0 THEN "no_subcommand"
            ELSE IF args[1] \notin DOMAIN valid_subcommands THEN "invalid_subcommand"
            ELSE valid_subcommands[args[1]]
    IN Call(function_to_call, [c EXCEPT !.ran = TRUE, !.args = args], args)

\* Group.run
Group_run(c, args) ==
    LET function_to_call ==
            IF Len(args) = 0 THEN "no_subcommand"
            ELSE IF args[1] \notin DOMAIN valid_subcommands THEN "invalid_subcommand"
            ELSE valid_subcommands[args[1]]
    IN Call(function_to_call, [c EXCEPT !.ran = TRUE, !.args = args],
            SubSeq(args, 2, Len(args)))

\* ------------------------------------------------------------------ actions
Limit == IF kwargs = EmptySpec THEN MaxFreshOps ELSE MaxOps

\* CodeBuilder.__init__
Init ==
    /\ kwargs \in Kwargs
    /\ code_spec = kwargs
    /\ attrs = EmptySpec
    /\ errors = <<>>
    /\ last = NoCall
    /\ nops = 0
    /\ group = NewGroup
    /\ cmd = NoRun

\* builder.key = value
SetAttr(key, value) ==
    /\ nops < Limit
    /\ LET r == __setattr__(self, key, value)
       IN /\ code_spec' = r.spec
          /\ attrs' = r.attrs
          /\ errors' = r.errors
          /\ last' = [NoCall EXCEPT !.op = "set", !.key = key, !.value = value,
                                    !.raised = r.raised,
                                    !.success = (r.raised = "none")]
    /\ nops' = nops + 1
    /\ UNCHANGED <<kwargs, group, cmd>>

\* builder.validate(raise_error)
Validate(raise_error) ==
    /\ nops < Limit
    /\ LET r == validate(self, raise_error)
       IN /\ errors' = r.errors
          /\ last' = [NoCall EXCEPT !.op = "validate", !.raise_error = raise_error,
                                    !.raised = r.raised, !.success = r.success]
    /\ nops' = nops + 1
    /\ UNCHANGED <<code_spec, attrs, kwargs, group, cmd>>

\* builder.new()
New ==
    /\ nops < Limit
    /\ LET r == new(self)
       IN /\ errors' = r.errors
          /\ last' = [NoCall EXCEPT !.op = "new", !.raise_error = TRUE,
                                    !.raised = r.raised, !.msg = r.msg,
                                    !.success = (r.raised = "none"),
                                    !.unknown = r.unknown, !.code = r.code]
    /\ nops' = nops + 1
    /\ UNCHANGED <<code_spec, attrs, kwargs, group, cmd>>

Next ==
    \/ \E key \in Keys : \E value \in ValuesOf(key) : SetAttr(key, value)
    \/ \E raise_error \in BOOLEAN : Validate(raise_error)
    \/ New

Spec == Init /\ [][Next]_vars

\* ----------------------------------------------------------- group actions
\* The builder and the command line take no part in the group tests.
BuilderIdle ==
    /\ kwargs = EmptySpec
    /\ code_spec = EmptySpec
    /\ attrs = EmptySpec
    /\ errors = <<>>
    /\ last = NoCall
    /\ nops = 0

\* g = Group(name=...)
GroupInit ==
    /\ BuilderIdle
    /\ cmd = NoRun
    /\ group = NewGroup

\* g.store()
StoreGroup ==
    /\ ~group.stored
    /\ group' = [group EXCEPT !.stored = TRUE]
    /\ UNCHANGED <<code_spec, attrs, errors, last, nops, kwargs, cmd>>

\* g.delete(): the row and its links are gone
DeleteGroup ==
    /\ group.stored
    /\ group' = [group EXCEPT !.stored = FALSE, !.dbnodes = <<>>]
    /\ UNCHANGED <<code_spec, attrs, errors, last, nops, kwargs, cmd>>

\* g.add_nodes(nodes)
AddNodes(nodes) ==
    /\ group.ncalls < MaxGroupOps
    /\ group' = add_nodes(group, nodes)
    /\ UNCHANGED <<code_spec, attrs, errors, last, nops, kwargs, cmd>>

\* g.remove_nodes(nodes)
RemoveNodes(nodes) ==
    /\ group.ncalls < MaxGroupOps
    /\ group' = remove_nodes(group, nodes)
    /\ UNCHANGED <<code_spec, attrs, errors, last, nops, kwargs, cmd>>

GroupNext ==
    \/ StoreGroup
    \/ DeleteGroup
    \/ \E nodes \in NodeArgs : AddNodes(nodes)
    \/ \E nodes \in NodeArgs : RemoveNodes(nodes)

GroupSpec == GroupInit /\ [][GroupNext]_vars

\* ---------------------------------------------------- command line actions
\* Group()
CmdInit ==
    /\ BuilderIdle
    /\ group = NewGroup
    /\ cmd = NoRun

\* Group().run(*args): the process runs the command once
Run(args) ==
    /\ ~cmd.ran
    /\ cmd' = Group_run(cmd, args)
    /\ UNCHANGED <<code_spec, attrs, errors, last, nops, kwargs, group>>

CmdNext == \E args \in ArgLists : Run(args)

CmdSpec == CmdInit /\ [][CmdNext]_vars

\* ------------------------------------------------------- the three rules
\* The three validation rules, stated on a specification.
Get(spec, k) == IF k \in DOMAIN spec THEN spec[k] ELSE None
NonEmpty(spec, k) == k \in DOMAIN spec /\ spec[k] # ""
Rule1Violated(spec) == NonEmpty(spec, "code_type") /\ spec["code_type"] \notin CodeType
Rule2Violated(spec) ==
    /\ Get(spec, "code_type") = STORE_AND_UPLOAD
    /\ NonEmpty(spec, "computer") \/ NonEmpty(spec, "remote_abs_path")
Rule3Violated(spec) ==
    /\ Get(spec, "code_type") = ON_COMPUTER
    /\ NonEmpty(spec, "code_folder") \/ NonEmpty(spec, "code_rel_path")
RulesHold(spec) == ~Rule1Violated(spec) /\ ~Rule2Violated(spec) /\ ~Rule3Violated(spec)

\* What reading builder.key gives: the value, or the error "<key> not set".
Read(b, key) ==
    IF IsSet(b, key) THEN [raised |-> "none", value |-> __getattr__(b, key)]
    ELSE [raised |-> "CodeValidationError", value |-> key \o " not set"]

\* This step is a call of the given operation.
Calls(op) == nops' = nops + 1 /\ last'.op = op

\* -------------------------------------------------------------------- C1
\* C1: an assignment key := value whose resulting specification violates a
\* rule raises CodeValidationError, leaves the specification exactly as it
\* was, and leaves a read of key giving what it gave before the call.
C1_RollbackOnRejectedSet ==
    [][(Calls("set") /\ ~RulesHold(Assign(code_spec, last'.key, last'.value)))
          => /\ last'.raised = "CodeValidationError"
             /\ code_spec' = code_spec
             /\ Read(self', last'.key) = Read(self, last'.key)]_vars

\* A rejected assignment to a key that was never set: it is still not set.
C1_Witness ==
    /\ last.op = "set"
    /\ last.raised = "CodeValidationError"
    /\ ~RulesHold(Assign(code_spec, last.key, last.value))
    /\ Read(self, last.key).raised = "CodeValidationError"

\* -------------------------------------------------------------------- C2
\* C2: after a set or validate call has failed, a set whose resulting
\* specification satisfies the three rules is accepted and stores the value,
\* and a validate on a rule-satisfying specification reports success.
C2_RecoverableAfterFailure ==
    [][(last.op \in {"set", "validate"} /\ ~last.success)
          => /\ (Calls("set") /\ RulesHold(Assign(code_spec, last'.key, last'.value)))
                   => /\ last'.raised = "none"
                      /\ code_spec' = Assign(code_spec, last'.key, last'.value)
             /\ (Calls("validate") /\ RulesHold(code_spec)) => last'.success]_vars

\* -------------------------------------------------------------------- C3
\* The specification is a store-and-upload one with the keys label,
\* description, input plugin, code folder and relative path, with or
\* without the two text keys that new() also reads.
BuildKeys == {"code_type", "code_folder", "code_rel_path", "label", "description", "input_plugin"}
CompleteKeys == BuildKeys \cup {"prepend_text", "append_text"}
IsUploadSpec(spec, keys) ==
    /\ DOMAIN spec = keys
    /\ spec["code_type"] = STORE_AND_UPLOAD
    /\ IsDir(spec["code_folder"])

\* C3: new() on a fresh builder holding such a specification raises nothing
\* and returns a Code of the store-and-upload variant.
C3_SuccessfulBuild ==
    (/\ last.op = "new"
     /\ nops = 1
     /\ IsUploadSpec(code_spec, BuildKeys) \/ IsUploadSpec(code_spec, CompleteKeys))
        => /\ last.raised = "none"
           /\ last.code.variant = "store-and-upload"

\* -------------------------------------------------------------------- C4
\* C4: new() on a complete store-and-upload specification plus one extra
\* key raises an error whose unknown parameters are exactly the extra key.
C4_UnconsumedKeyNamed ==
    (/\ last.op = "new"
     /\ errors = <<>>
     /\ IsUploadSpec(code_spec, CompleteKeys \cup {ExtraKey}))
        => /\ last.raised = "CodeValidationError"
           /\ last.unknown = {ExtraKey}

\* -------------------------------------------------------------------- C5
\* The keys the construction logic consumes for a variant tag.
Consumed(code_type) ==
    (IF code_type = STORE_AND_UPLOAD
     THEN {"code_folder", "code_rel_path"}
     ELSE {"computer", "remote_abs_path"}) \cup CommonKeys

\* Validation passed, every key new() needs is there, every key is consumed.
FullyBuilt ==
    /\ errors = <<>>
    /\ RulesHold(code_spec)
    /\ "code_type" \in DOMAIN code_spec
    /\ Consumed(code_spec["code_type"]) \subseteq DOMAIN code_spec
    /\ DOMAIN code_spec \subseteq Consumed(code_spec["code_type"])

\* C5: new() returns a Code only after validation passed with every needed
\* key present and every key consumed; in every other case it raises and
\* no Code is returned.
C5_NoPartialConstruction ==
    last.op = "new"
        => /\ last.code # NoCode => (last.raised = "none" /\ FullyBuilt)
           /\ ~FullyBuilt => (last.raised # "none" /\ last.code = NoCode)

\* new() has raised on a rule-satisfying specification that has every key
\* it reads and one it does not.
C5_Witness ==
    /\ last.op = "new"
    /\ last.raised = "CodeValidationError"
    /\ last.unknown # {}
    /\ last.code = NoCode
    /\ RulesHold(code_spec)

\* -------------------------------------------------------------------- C6
\* An attribute of each variant is populated.
BothPopulated(spec) ==
    /\ NonEmpty(spec, "code_folder") \/ NonEmpty(spec, "code_rel_path")
    /\ NonEmpty(spec, "computer") \/ NonEmpty(spec, "remote_abs_path")

\* C6 as stated: validate reports failure on every specification with an
\* attribute of each variant populated, whatever the variant tag.
C6_BothPopulatedFails ==
    (last.op = "validate" /\ BothPopulated(code_spec)) => ~last.success

\* C6, amended: validate reports failure on every specification with an
\* attribute of each variant populated whose variant tag is store-and-upload
\* or on-computer.
C6_BothPopulatedFailsWhenTagged ==
    (/\ last.op = "validate"
     /\ BothPopulated(code_spec)
     /\ Get(code_spec, "code_type") \in CodeType)
        => /\ ~last.success
           /\ last.raise_error => last.raised = "CodeValidationError"

\* validate has failed on an on-computer specification with both populated.
C6_Witness ==
    /\ last.op = "validate"
    /\ BothPopulated(code_spec)
    /\ Get(code_spec, "code_type") = ON_COMPUTER
    /\ ~last.success

\* -------------------------------------------------------------------- C7
\* C7: on a builder constructed with no parameters the specification
\* satisfies the three rules after every sequence of assignments.
C7_ValidUnderSet == kwargs = EmptySpec => RulesHold(code_spec)

\* -------------------------------------------------------------------- C8
\* C8: the first validate on a freshly constructed builder fails exactly
\* when the specification violates one of the three rules, and raises
\* exactly when it fails and was asked to raise.
C8_ValidateMatchesRules ==
    (last.op = "validate" /\ nops = 1)
        => /\ last.success <=> RulesHold(code_spec)
           /\ last.raised = "CodeValidationError"
                 <=> (last.raise_error /\ ~RulesHold(code_spec))
           /\ ("code_type" \notin DOMAIN code_spec) => last.success

\* The first validate has failed on rule 3 alone, through code_rel_path.
C8_Witness ==
    /\ last.op = "validate"
    /\ nops = 1
    /\ ~last.success
    /\ Rule3Violated(code_spec)
    /\ ~NonEmpty(code_spec, "code_folder")

\* -------------------------------------------------------------------- C9
\* Two attributes that the selected variant forbids are populated.
TwoForbidden(spec) ==
    \/ /\ Get(spec, "code_type") = STORE_AND_UPLOAD
       /\ NonEmpty(spec, "computer") /\ NonEmpty(spec, "remote_abs_path")
    \/ /\ Get(spec, "code_type") = ON_COMPUTER
       /\ NonEmpty(spec, "code_folder") /\ NonEmpty(spec, "code_rel_path")

Count(P) == IF P THEN 1 ELSE 0
RulesViolated(spec) ==
    Count(Rule1Violated(spec)) + Count(Rule2Violated(spec)) + Count(Rule3Violated(spec))
ForbiddenPopulated(spec) ==
    IF Get(spec, "code_type") = STORE_AND_UPLOAD
    THEN Count(NonEmpty(spec, "computer")) + Count(NonEmpty(spec, "remote_abs_path"))
    ELSE Count(NonEmpty(spec, "code_folder")) + Count(NonEmpty(spec, "code_rel_path"))

ValidateOutcome(b) == LET r == validate(b, FALSE) IN <<r.success, r.errors>>

\* C10: repeating the assignment just made leaves the specification, the
\* value read for every key and the outcome of a following validate as they
\* were after making it once.
C10_SetIdempotent ==
    [][(/\ last.op = "set"
        /\ Calls("set")
        /\ last'.key = last.key
        /\ last'.value = last.value)
          => /\ code_spec' = code_spec
             /\ \A k \in Keys : Read(self', k) = Read(self, k)
             /\ ValidateOutcome(self') = ValidateOutcome(self)]_vars

\* ------------------------------------------------------------------- C11
\* The classes of the errors raised for a violated rule (by validate) and
\* for a key that is not set (by _get_and_count).
ValidationFailureKinds ==
    {result(<< <<"invalid code type">> >>, TRUE).raised,
     _get_and_count(Builder(EmptySpec, EmptySpec, <<>>), <<"label">>).raised}

\* C11: the error new() raises for a key left unconsumed after validation
\* passed is of another class than the error for a violated rule or a
\* missing key.
C11_DistinctErrorKinds ==
    (last.op = "new" /\ last.unknown # {}) => last.raised \notin ValidationFailureKinds

\* ------------------------------------------------------------------- C12
\* The pks that g.nodes lists.
Members(g) == {g.dbnodes[i] : i \in 1..Len(g.dbnodes)}

\* This step is a call of the given group method on a stored group with
\* stored nodes.
GroupCalls(op) ==
    /\ group'.ncalls = group.ncalls + 1
    /\ group'.call.op = op
    /\ group.stored
    /\ Unstored \notin group'.call.pks

RefusedWithSubcommands ==
    /\ Len(cmd.stderr) = 2
    /\ cmd.stderr[2] = {"  list"}
    /\ cmd.exit = "1"
    /\ ~cmd.db
    /\ cmd.stdout = <<>>

\* C13: run calls exactly one handler, chosen by the first argument:
\* no_subcommand without arguments, invalid_subcommand for a first argument
\* that is no key of valid_subcommands, both refusing as above, and
\* group_list with the remaining arguments, and only those, for 'list'.
C13_Dispatch ==
    cmd.ran
        => /\ Len(cmd.called) = 1
           /\ cmd.args = <<>>
                 => cmd.called[1] = "no_subcommand" /\ RefusedWithSubcommands
           /\ (cmd.args # <<>> /\ cmd.args[1] # "list")
                 => cmd.called[1] = "invalid_subcommand" /\ RefusedWithSubcommands
           /\ (cmd.args # <<>> /\ cmd.args[1] = "list")
                 => /\ cmd.called[1] = "group_list"
                    /\ cmd.passed = Tail(cmd.args)

\* `group list -u list`: group_list got the two remaining arguments and
\* printed the header and the one group of that user.
C13_Witness ==
    /\ cmd.ran
    /\ cmd.args = <<"list", "-u", "list">>
    /\ cmd.called = <<"group_list">>
    /\ cmd.passed = <<"-u", "list">>
    /\ cmd.db
    /\ cmd.exit = "none"
    /\ Len(cmd.stdout) = 2

====
